---- MODULE Spec2Model ----
(***************************************************************************)
(* Model of CouchbaseLibrary (src/src/CouchbaseLibrary.py): the keyword    *)
(* facade with its field _bucket and its robot.utils.ConnectionCache       *)
(* _cache, together with the Bucket handles it opens and closes.           *)
(*                                                                         *)
(* A Bucket handle is a positive integer, numbered in order of             *)
(* construction.  closeCalls counts, per handle, how often its close       *)
(* operation has been invoked, and closeFailures how many of these calls   *)
(* raised.  issued lists the indices returned by connect since the cache   *)
(* was last emptied.  last records the outcome of the most recent keyword  *)
(* call.  docs is the content of the Couchbase bucket the connections are  *)
(* made to: per key, the document body or None.                            *)
(***************************************************************************)
EXTENDS Integers, Sequences, FiniteSets

VARIABLES _bucket, _cache, opened, closeCalls, closeFailures, issued, last,
          docs

vars ==
    <<_bucket, _cache, opened, closeCalls, closeFailures, issued, last, docs>>

\* Bounds of the model: the Bucket handles constructed, the close calls made
\* on one handle, and the close calls that raise.
MaxHandles == 3
MaxCloseCalls == 2
MaxCloseFailures == 1

\* Python's None, as the value of _bucket, of current_index and of a result.
None == 0
\* The ConnectionCache's _no_current object (robot.utils NoConnection).
NoConnection == -1

Handles == 1..MaxHandles

\* alias=None of connect_to_couchbase_bucket.
NoAlias == "<None>"
AliasArgs == {NoAlias, "B1", "2"}

\* Keys of the ConnectionCache's NormalizedDict _aliases.
AliasKeys == {"b1", "2"}

\* NormalizedDict key normalisation: caseless.
Normalize(s) == IF s = "B1" THEN "b1" ELSE s

\* int(text) of _resolve_index; 0 stands for a text int() rejects.
IntOf(s) ==
    CASE s = "1" -> 1
      [] s = "2" -> 2
      [] s = "3" -> 3
      [] s = "4" -> 4
      [] OTHER -> 0

\* Arguments of switch_couchbase_bucket_connections: strings and integers.
StringArgs == {"b1", "2", "zz"}
IntArgs == 1..(MaxHandles + 1)
SwitchArgs ==
    [isString : {TRUE}, text : StringArgs, n : {0}]
        \cup [isString : {FALSE}, text : {""}, n : IntArgs]

\* Arguments of the document keywords: keys and document bodies.
KeyArgs == {"k"}
ValueArgs == {1}

DocOps ==
    {"view_document_by_key", "bucket_contains_document_by_key",
     "get_document_cas_by_key", "get_document_value_by_key",
     "validate_document_by_json", "certainly_delete_document_by_key",
     "upsert_document"}

----------------------------------------------------------------------------
\* robot.utils.ConnectionCache, as used through self._cache.

EmptyAliases == [k \in AliasKeys |-> 0]

\* ConnectionCache.__init__ and ConnectionCache.empty_cache.
EmptyCache ==
    [current |-> NoConnection, connections |-> <<>>, aliases |-> EmptyAliases]

\* ConnectionCache.__bool__: a current connection is set.
CacheNonEmpty(c) == c.current # NoConnection

\* ConnectionCache.current_index: None when empty, else the 1-based position
\* of the connection that is the current one.
current_index(c) ==
    IF ~CacheNonEmpty(c) THEN None
    ELSE IF \E i \in 1..Len(c.connections) : c.connections[i] = c.current
         THEN CHOOSE i \in 1..Len(c.connections) :
                  /\ c.connections[i] = c.current
                  /\ \A j \in 1..(i - 1) : c.connections[j] # c.current
         ELSE None

RegisterIndexZeroBased(c) == Len(c.connections)

\* ConnectionCache.register: the index returned is the length after append.
RegisterIndex(c) == Len(c.connections) + 1

\* ConnectionCache.register(connection, alias).
Register(c, h, alias) ==
    [current |-> h,
     connections |-> Append(c.connections, h),
     aliases |-> IF alias = NoAlias THEN c.aliases
                 ELSE [c.aliases EXCEPT ![Normalize(alias)] = RegisterIndex(c)]]

\* ConnectionCache._resolve_alias: 0 when the argument is no registered alias.
ResolveAlias(c, arg) ==
    IF arg.isString /\ Normalize(arg.text) \in AliasKeys
    THEN c.aliases[Normalize(arg.text)]
    ELSE 0

\* ConnectionCache._resolve_index: 0 when the argument is no valid index.
ResolveIndex(c, arg) ==
    LET n == IF arg.isString THEN IntOf(arg.text) ELSE arg.n
    IN  IF 0 < n /\ n <= Len(c.connections) THEN n ELSE 0

ResolveIndexFirst(c, arg) ==
    IF ResolveIndex(c, arg) # 0 THEN ResolveIndex(c, arg)
    ELSE ResolveAlias(c, arg)

\* ConnectionCache.resolve_alias_or_index: the alias first, then the index;
\* 0 stands for the error "Non-existing index or alias".
resolve_alias_or_index(c, arg) ==
    IF ResolveAlias(c, arg) # 0 THEN ResolveAlias(c, arg)
    ELSE ResolveIndex(c, arg)

----------------------------------------------------------------------------
\* The outcome of a keyword call: whether it returned (ok) or raised (err),
\* the value returned, the handle a document call was delegated to, the
\* argument and the registry index the call selected, and whether the call
\* before it was a completed teardown.
Outcome(op, ok, ret, err, target, arg, sel) ==
    [op |-> op, ok |-> ok, ret |-> ret, err |-> err, target |-> target,
     arg |-> arg, sel |-> sel,
     prevTeardown |-> IF last.ok /\ last.op \in {"disconnect", "close_all"}
                      THEN last.op ELSE ""]

NoArg == [isString |-> FALSE, text |-> "", n |-> 0]

TypeOK ==
    /\ _bucket \in Handles \cup {None, NoConnection}
    /\ _cache.current \in Handles \cup {NoConnection}
    /\ opened \in 0..MaxHandles
    /\ closeCalls \in [Handles -> 0..MaxCloseCalls]
    /\ closeFailures \in 0..MaxCloseFailures
    /\ docs \in [KeyArgs -> ValueArgs \cup {None}]

\* CouchbaseLibrary.__init__.
Init ==
    /\ _bucket = None
    /\ _cache = EmptyCache
    /\ opened = 0
    /\ closeCalls = [h \in Handles |-> 0]
    /\ closeFailures = 0
    /\ issued = <<>>
    /\ docs \in [KeyArgs -> ValueArgs \cup {None}]
    /\ last = [op |-> "init", ok |-> TRUE, ret |-> None, err |-> "",
               target |-> None, arg |-> NoArg, sel |-> 0,
               prevTeardown |-> ""]

\* connect_to_couchbase_bucket, Bucket(...) succeeding.
connect_to_couchbase_bucket ==
    /\ opened < MaxHandles
    /\ \E alias \in AliasArgs :
         LET bucket == opened + 1
         IN  /\ opened' = bucket
             /\ _bucket' = bucket
             /\ _cache' = Register(_cache, bucket, alias)
             /\ issued' = Append(issued, RegisterIndex(_cache))
             /\ last' = Outcome("connect", TRUE, RegisterIndex(_cache), "",
                                None, NoArg, RegisterIndex(_cache))
    /\ UNCHANGED <<closeCalls, closeFailures, docs>>

ConnectFailedDropsBucket ==
    /\ _bucket' = None
    /\ last' = Outcome("connect", FALSE, None, "CouldNotConnect", None, NoArg, 0)
    /\ UNCHANGED <<_cache, opened, closeCalls, closeFailures, issued, docs>>

ConnectFailedEmptiesCache ==
    /\ _cache' = EmptyCache
    /\ issued' = <<>>
    /\ last' = Outcome("connect", FALSE, None, "CouldNotConnect", None, NoArg, 0)
    /\ UNCHANGED <<_bucket, opened, closeCalls, closeFailures, docs>>

\* connect_to_couchbase_bucket, Bucket(...) raising CouchbaseError.
connect_failed ==
    /\ last' = Outcome("connect", FALSE, None, "CouldNotConnect", None, NoArg, 0)
    /\ UNCHANGED <<_bucket, _cache, opened, closeCalls, closeFailures, issued,
                   docs>>

\* `if self._bucket:` - None and the NoConnection object are false.
Truthy(b) == b \in Handles

\* disconnect_from_couchbase_bucket; closeOk is whether _close() returns.
disconnect_from_couchbase_bucket ==
    \/ /\ ~Truthy(_bucket)
       /\ _cache' = EmptyCache
       /\ issued' = <<>>
       /\ last' = Outcome("disconnect", TRUE, None, "", None, NoArg, 0)
       /\ UNCHANGED <<_bucket, opened, closeCalls, closeFailures, docs>>
    \/ /\ Truthy(_bucket)
       /\ closeCalls[_bucket] < MaxCloseCalls
       /\ closeCalls' = [closeCalls EXCEPT ![_bucket] = @ + 1]
       /\ \E closeOk \in BOOLEAN :
            IF closeOk
            THEN /\ _cache' = EmptyCache
                 /\ issued' = <<>>
                 /\ last' = Outcome("disconnect", TRUE, None, "", None, NoArg, 0)
                 /\ UNCHANGED closeFailures
            ELSE /\ closeFailures < MaxCloseFailures
                 /\ closeFailures' = closeFailures + 1
                 /\ UNCHANGED <<_cache, issued>>
                 /\ last' = Outcome("disconnect", FALSE, None, "CloseFailed",
                                    None, NoArg, 0)
       /\ UNCHANGED <<_bucket, opened, docs>>

\* ConnectionCache.close_all: close is invoked on the connections in
\* registration order; failAt is the position of the first close that raises
\* (0: none does).  The handles close was invoked on:
CloseAllInvoked(c, failAt) ==
    {c.connections[i] : i \in 1..(IF failAt = 0 THEN Len(c.connections) ELSE failAt)}

\* `self._bucket = self._cache.close_all()` when every close returned: the
\* cache is emptied and its current (the NoConnection object) is assigned.
CloseAllKeepsRegistry ==
    /\ _bucket' = None
    /\ UNCHANGED <<_cache, issued>>
    /\ last' = Outcome("close_all", TRUE, None, "", None, NoArg, 0)

CloseAllDone ==
    /\ _cache' = EmptyCache
    /\ _bucket' = EmptyCache.current
    /\ issued' = <<>>
    /\ last' = Outcome("close_all", TRUE, None, "", None, NoArg, 0)

\* close_all_couchbase_bucket_connections.
close_all_couchbase_bucket_connections ==
    \E failAt \in 0..Len(_cache.connections) :
        /\ \A h \in CloseAllInvoked(_cache, failAt) : closeCalls[h] < MaxCloseCalls
        /\ closeCalls' = [h \in Handles |->
                             IF h \in CloseAllInvoked(_cache, failAt)
                             THEN closeCalls[h] + 1 ELSE closeCalls[h]]
        /\ IF failAt = 0
           THEN CloseAllDone /\ UNCHANGED closeFailures
           ELSE /\ closeFailures < MaxCloseFailures
                /\ closeFailures' = closeFailures + 1
                /\ UNCHANGED <<_cache, _bucket, issued>>
                /\ last' = Outcome("close_all", FALSE, None, "CloseFailed",
                                   None, NoArg, 0)
        /\ UNCHANGED <<opened, docs>>

\* ConnectionCache.switch: the resolved connection becomes current.
Switch(c, index) == [c EXCEPT !.current = c.connections[index]]

OldIndexReadAfterSwitch(before, after) == current_index(after)

\* `old_index = self._cache.current_index`, read before the switch.
old_index(before, after) == current_index(before)

SwitchFailedDropsBucket(arg) ==
    /\ _bucket' = None
    /\ last' = Outcome("switch", FALSE, None, "NonExisting", None, arg, 0)
    /\ UNCHANGED <<_cache, opened, closeCalls, closeFailures, issued, docs>>

\* switch_couchbase_bucket_connections when _cache.switch raises: the
\* assignment to self._bucket does not happen.
SwitchFailed(arg) ==
    /\ last' = Outcome("switch", FALSE, None, "NonExisting", None, arg, 0)
    /\ UNCHANGED <<_bucket, _cache, opened, closeCalls, closeFailures, issued,
                   docs>>

SwitchDoneClosesPrevious(arg, index) ==
    /\ _cache' = Switch(_cache, index)
    /\ _bucket' = Switch(_cache, index).current
    /\ closeCalls' = [closeCalls EXCEPT ![_bucket] =
                         IF @ < MaxCloseCalls THEN @ + 1 ELSE @]
    /\ last' = Outcome("switch", TRUE,
                       old_index(_cache, Switch(_cache, index)),
                       "", None, arg, index)
    /\ UNCHANGED <<opened, closeFailures, issued, docs>>

\* switch_couchbase_bucket_connections when _cache.switch returns: the
\* connection it returns is assigned to self._bucket and old_index returned.
SwitchDone(arg, index) ==
    /\ _cache' = Switch(_cache, index)
    /\ _bucket' = Switch(_cache, index).current
    /\ last' = Outcome("switch", TRUE,
                       old_index(_cache, Switch(_cache, index)),
                       "", None, arg, index)
    /\ UNCHANGED <<opened, closeCalls, closeFailures, issued, docs>>

\* switch_couchbase_bucket_connections.
switch_couchbase_bucket_connections ==
    \E arg \in SwitchArgs :
        LET index == resolve_alias_or_index(_cache, arg)
        IN  IF index = 0
            THEN SwitchFailed(arg)
            ELSE SwitchDone(arg, index)

----------------------------------------------------------------------------
\* The Couchbase client, as used through self._bucket.

\* Bucket.get(key, quiet): the result of the lookup; a miss raises
\* NotFoundError unless quiet.
ClientGet(store, key, quiet) ==
    IF store[key] # None
    THEN [raised |-> FALSE, success |-> TRUE, rc |-> 0, cas |-> store[key],
          value |-> store[key]]
    ELSE [raised |-> ~quiet, success |-> FALSE, rc |-> 13, cas |-> None,
          value |-> None]

\* Bucket.remove(key, quiet=True): a miss is not an error.
ClientRemove(store, key) == [store EXCEPT ![key] = None]

\* Bucket.upsert(key, value).
ClientUpsert(store, key, value) == [store EXCEPT ![key] = value]

\* A boolean returned by a keyword.
BoolRet(b) == IF b THEN 1 ELSE 0

QuietEverywhere(op) == TRUE

\* The quiet argument the keyword passes to Bucket.get.
Quiet(op) ==
    op \in {"view_document_by_key", "bucket_contains_document_by_key",
            "validate_document_by_json"}

\* The guard and the delegation shared by the document keywords:
\* `if self._bucket is None: raise`, else a call on self._bucket, which the
\* NoConnection object answers by raising and a Bucket by serving it
\* (delegated); a Bucket on which close has been invoked may raise instead.
DocumentOp(op, delegated) ==
    IF _bucket = None
    THEN /\ last' = Outcome(op, FALSE, None, "NoOpenConnectionToBucket", None,
                            NoArg, 0)
         /\ UNCHANGED docs
    ELSE IF _bucket = NoConnection
    THEN /\ last' = Outcome(op, FALSE, None, "NoOpenConnection", None,
                            NoArg, 0)
         /\ UNCHANGED docs
    ELSE \/ delegated
         \/ /\ closeCalls[_bucket] > 0
            /\ last' = Outcome(op, FALSE, None, "ClientError", _bucket,
                               NoArg, 0)
            /\ UNCHANGED docs

\* The variables no document keyword changes.
facade == <<_bucket, _cache, opened, closeCalls, closeFailures, issued>>

\* A keyword that returns ret, or raises NotFoundError when the lookup did.
Lookup(op, r, ret) ==
    /\ last' = IF r.raised
               THEN Outcome(op, FALSE, None, "NotFoundError", _bucket, NoArg, 0)
               ELSE Outcome(op, TRUE, ret, "", _bucket, NoArg, 0)
    /\ UNCHANGED docs

view_document_by_key ==
    /\ \E key \in KeyArgs :
         LET op == "view_document_by_key"
             r == ClientGet(docs, key, Quiet(op))
         IN  DocumentOp(op, Lookup(op, r, r.rc))
    /\ UNCHANGED facade

bucket_contains_document_by_key ==
    /\ \E key \in KeyArgs :
         LET op == "bucket_contains_document_by_key"
             r == ClientGet(docs, key, Quiet(op))
         IN  DocumentOp(op, Lookup(op, r, BoolRet(r.success = TRUE)))
    /\ UNCHANGED facade

get_document_cas_by_key ==
    /\ \E key \in KeyArgs :
         LET op == "get_document_cas_by_key"
             r == ClientGet(docs, key, Quiet(op))
         IN  DocumentOp(op, Lookup(op, r, r.cas))
    /\ UNCHANGED facade

get_document_value_by_key ==
    /\ \E key \in KeyArgs :
         LET op == "get_document_value_by_key"
             r == ClientGet(docs, key, Quiet(op))
         IN  DocumentOp(op, Lookup(op, r, r.value))
    /\ UNCHANGED facade

\* validate_document_by_json; matches is whether JsonValidator finds the
\* expression in the document (it raises JsonValidatorError when not).
validate_document_by_json ==
    /\ \E key \in KeyArgs, matches \in BOOLEAN :
         LET op == "validate_document_by_json"
             r == ClientGet(docs, key, Quiet(op))
         IN  DocumentOp(op,
                 Lookup(op, r, IF r.success # TRUE THEN BoolRet(FALSE)
                               ELSE BoolRet(matches)))
    /\ UNCHANGED facade

certainly_delete_document_by_key ==
    /\ \E key \in KeyArgs :
         LET op == "certainly_delete_document_by_key"
         IN  DocumentOp(op,
                 /\ docs' = ClientRemove(docs, key)
                 /\ last' = Outcome(op, TRUE, None, "", _bucket, NoArg, 0))
    /\ UNCHANGED facade

upsert_document ==
    /\ \E key \in KeyArgs, value \in ValueArgs :
         LET op == "upsert_document"
         IN  DocumentOp(op,
                 /\ docs' = ClientUpsert(docs, key, value)
                 /\ last' = Outcome(op, TRUE, None, "", _bucket, NoArg, 0))
    /\ UNCHANGED facade

Next ==
    \/ connect_to_couchbase_bucket
    \/ connect_failed
    \/ disconnect_from_couchbase_bucket
    \/ close_all_couchbase_bucket_connections
    \/ switch_couchbase_bucket_connections
    \/ view_document_by_key
    \/ bucket_contains_document_by_key
    \/ get_document_cas_by_key
    \/ get_document_value_by_key
    \/ validate_document_by_json
    \/ certainly_delete_document_by_key
    \/ upsert_document

Spec == Init /\ [][Next]_vars

----------------------------------------------------------------------------
\* Properties.

\* The registry holds no entry, no alias and no current connection.
RegistryEmpty(c) ==
    /\ c.connections = <<>>
    /\ c.current = NoConnection
    /\ \A k \in AliasKeys : c.aliases[k] = 0

\* The errors that report a missing connection.
NoActiveConnectionErrors == {"NoOpenConnectionToBucket", "NoOpenConnection"}

Teardowns == {"disconnect", "close_all"}

\* The argument names entry i of registry c, by its alias or by its index.
Names(c, arg, i) ==
    \/ /\ arg.isString
       /\ \E k \in AliasKeys : Normalize(arg.text) = k /\ c.aliases[k] = i
    \/ IF arg.isString THEN IntOf(arg.text) = i ELSE arg.n = i

Matches(c, arg) == \E i \in 1..Len(c.connections) : Names(c, arg, i)

\* C1: a document operation called while the registry is empty fails with
\* the no-active-connection error and calls no connection handle.
C1_DocOpOnEmptyRegistryFails ==
    (last.op \in DocOps /\ RegistryEmpty(_cache))
        => (~last.ok /\ last.err \in NoActiveConnectionErrors
            /\ last.target = None)

\* C2: the successful connects since construction or the last completed
\* teardown returned 1, 2, ..., N in call order, whatever switches and failed
\* connects came between them, and a successful connect leaves the newly
\* registered connection current.
C2_SequentialIndices ==
    /\ \A i \in 1..Len(issued) : issued[i] = i
    /\ (last.op = "connect" /\ last.ok)
          => /\ last.ret = Len(issued)
             /\ Len(_cache.connections) = last.ret
             /\ _cache.connections[last.ret] = opened
             /\ _cache.current = opened
             /\ _bucket = opened

\* Three successful connects in a row returned 1, 2 and 3.
C2_Witness ==
    /\ last.op = "connect" /\ last.ok
    /\ last.ret = 3
    /\ issued = <<1, 2, 3>>

\* C3: when close_all_couchbase_bucket_connections has completed the
\* registry has no entries and no current connection, and a successful
\* connect on an empty registry returns index 1.
C3_CloseAllResets ==
    [][ /\ (last'.op = "close_all" /\ last'.ok)
             => (RegistryEmpty(_cache') /\ current_index(_cache') = None)
        /\ (RegistryEmpty(_cache) /\ last'.op = "connect" /\ last'.ok)
             => last'.ret = 1 ]_vars

\* The third handle was connected right after a completed close-all that
\* followed two connects, and got index 1.
C3_Witness ==
    /\ last.op = "connect" /\ last.ok /\ last.ret = 1
    /\ last.prevTeardown = "close_all"
    /\ opened = 3
    /\ closeCalls[1] = 1 /\ closeCalls[2] = 1

\* C4: a successful switch returns the index that was current before the
\* call and makes the entry its argument names current.
C4_SwitchReturnsPrevious ==
    [][ (last'.op = "switch" /\ last'.ok)
            => /\ last'.ret \in 1..Len(_cache.connections)
               /\ _cache.connections[last'.ret] = _cache.current
               /\ last'.sel \in 1..Len(_cache.connections)
               /\ Names(_cache, last'.arg, last'.sel)
               /\ _cache'.current = _cache.connections[last'.sel]
               /\ _bucket' = _cache'.current ]_vars

\* With two connections, of which the first had been switched to, a switch
\* to the second returned 1.
C4_Witness ==
    /\ last.op = "switch" /\ last.ok
    /\ Len(_cache.connections) = 2
    /\ last.sel = 2 /\ last.ret = 1

\* C5: a switch fails exactly when its argument matches no registered index
\* and no registered alias, and a failed switch changes neither the registry
\* nor the handle document operations use nor any handle.
C5_FailedSwitchChangesNothing ==
    [][ last'.op = "switch"
            => /\ last'.ok <=> Matches(_cache, last'.arg)
               /\ ~last'.ok
                    => /\ _cache' = _cache
                       /\ _bucket' = _bucket
                       /\ closeCalls' = closeCalls
                       /\ opened' = opened ]_vars

\* A switch failed on a registry of two connections with aliases, and the
\* facade still uses the current one.
C5_Witness ==
    /\ last.op = "switch" /\ ~last.ok
    /\ Len(_cache.connections) = 2
    /\ _cache.aliases["b1"] = 1
    /\ _bucket = _cache.current /\ _bucket = 2

\* C6: once a disconnect or close-all has completed, every handle opened
\* before it has had close invoked exactly once, and no handle is ever
\* closed a second time.
C6_EveryHandleClosedOnce ==
    /\ \A h \in Handles : closeCalls[h] <= 1
    /\ (last.op \in Teardowns /\ last.ok)
          => \A h \in 1..opened : closeCalls[h] = 1

\* C7: disconnect called with no active connection raises nothing, invokes
\* close on no handle and leaves the registry empty.
C7_DisconnectIdempotent ==
    [][ (last'.op = "disconnect" /\ RegistryEmpty(_cache))
            => /\ last'.ok
               /\ closeCalls' = closeCalls
               /\ RegistryEmpty(_cache') ]_vars

\* C8: disconnect and close-all never raise and always leave the registry
\* empty, and close-all invokes close on every registered handle, also when
\* a close fails.
C8_TeardownBestEffort ==
    [][ last'.op \in Teardowns
            => /\ last'.ok
               /\ RegistryEmpty(_cache')
               /\ last'.op = "close_all"
                    => \A i \in 1..Len(_cache.connections) :
                          closeCalls'[_cache.connections[i]]
                              = closeCalls[_cache.connections[i]] + 1 ]_vars

\* C9: disconnect on an active registry invokes close on the registry's
\* current handle and on no other, and then clears the registry: no index or
\* alias can be switched to, no connection is current, and the next connect
\* gets index 1.
C9_DisconnectClosesCurrentAndClears ==
    [][ (last'.op = "disconnect" /\ CacheNonEmpty(_cache))
            => /\ closeCalls' = [closeCalls EXCEPT ![_cache.current] = @ + 1]
               /\ RegistryEmpty(_cache')
               /\ \A arg \in SwitchArgs : ~Matches(_cache', arg)
               /\ current_index(_cache') = None
               /\ RegisterIndex(_cache') = 1 ]_vars

\* C10: the handle the facade uses for document operations is the
\* registry's current handle, and is absent exactly when the registry has
\* no current entry.
C10_FacadeUsesRegistryCurrent ==
    /\ Truthy(_bucket) <=> CacheNonEmpty(_cache)
    /\ Truthy(_bucket) => _bucket = _cache.current
    /\ last.op \in DocOps
          => (IF CacheNonEmpty(_cache) THEN last.target = _cache.current
              ELSE last.target = None)

\* C11: a connect that fails to open the connection raises and changes
\* nothing: the registry with its entries, aliases and current connection,
\* the handle document operations use, the handles, and the index the next
\* successful connect returns are as before.
C11_FailedConnectChangesNothing ==
    [][ (last'.op = "connect" /\ ~last'.ok)
            => /\ last'.err = "CouldNotConnect"
               /\ _cache' = _cache
               /\ _bucket' = _bucket
               /\ opened' = opened
               /\ closeCalls' = closeCalls
               /\ RegisterIndex(_cache') = RegisterIndex(_cache) ]_vars

\* A connect failed on a registry of two connections of which the first is
\* current, and the facade still uses that one.
C11_Witness ==
    /\ last.op = "connect" /\ ~last.ok
    /\ Len(_cache.connections) = 2
    /\ _cache.current = 1
    /\ _bucket = 1

\* The facade holds a handle on which close has not been invoked and which
\* is the registry's current one.
ActiveOpen ==
    /\ CacheNonEmpty(_cache)
    /\ Truthy(_bucket)
    /\ closeCalls[_bucket] = 0

\* C12: with an active connection and the key absent from the bucket, only
\* get_document_cas_by_key and get_document_value_by_key raise (NotFoundError);
\* view_document_by_key returns a nonzero code, bucket_contains_document_by_key
\* and validate_document_by_json return false, certainly_delete_document_by_key
\* completes, and the key is still absent afterwards.
C12_AbsentKey ==
    [][ (last'.op \in DocOps /\ ActiveOpen /\ \A k \in KeyArgs : docs[k] = None)
            => /\ last'.target = _bucket
               /\ last'.op \in {"get_document_cas_by_key",
                                 "get_document_value_by_key"}
                    => (~last'.ok /\ last'.err = "NotFoundError")
               /\ last'.op = "view_document_by_key"
                    => (last'.ok /\ last'.ret # 0)
               /\ last'.op \in {"bucket_contains_document_by_key",
                                 "validate_document_by_json"}
                    => (last'.ok /\ last'.ret = BoolRet(FALSE))
               /\ last'.op = "certainly_delete_document_by_key" => last'.ok
               /\ last'.op # "upsert_document" => docs' = docs ]_vars

\* get_document_cas_by_key raised NotFoundError on the open current handle
\* for a key the bucket does not hold.
C12_Witness ==
    /\ last.op = "get_document_cas_by_key"
    /\ ~last.ok /\ last.err = "NotFoundError"
    /\ last.target = _cache.current
    /\ closeCalls[last.target] = 0
    /\ docs["k"] = None

\* C13: a switch resolves a string argument against the registered aliases
\* first, and reads it as an index only when no alias matches: an alias that
\* reads as the index of another connection selects the aliased connection.
C13_AliasBeforeIndex ==
    [][ (last'.op = "switch" /\ last'.arg.isString)
            => LET k == Normalize(last'.arg.text)
                   n == IntOf(last'.arg.text)
               IN  IF k \in AliasKeys /\ _cache.aliases[k] # 0
                   THEN /\ last'.ok
                        /\ last'.sel = _cache.aliases[k]
                        /\ _cache'.current = _cache.connections[_cache.aliases[k]]
                        /\ _bucket' = _cache'.current
                   ELSE last'.ok
                          => /\ last'.sel = n
                             /\ _cache'.current = _cache.connections[n] ]_vars

\* The first connection carries the alias "2", a second connection exists,
\* and a switch to "2" selected the first.
C13_Witness ==
    /\ last.op = "switch" /\ last.ok
    /\ last.arg.isString /\ last.arg.text = "2"
    /\ _cache.aliases["2"] = 1
    /\ Len(_cache.connections) >= 2
    /\ last.sel = 1
    /\ _cache.current = _cache.connections[1]
    /\ _bucket = _cache.connections[1]

\* The registry holds at least one entry and its current connection is one
\* of the registered ones.
RegistryActive(c) ==
    /\ Len(c.connections) >= 1
    /\ \E i \in 1..Len(c.connections) : c.connections[i] = c.current

\* C14: the registry is always either empty or active, and only disconnect
\* and close-all take an active registry to the empty one.
C14_EmptyOrActive ==
    /\ [](RegistryEmpty(_cache) \/ RegistryActive(_cache))
    /\ [][ (RegistryActive(_cache) /\ RegistryEmpty(_cache'))
               => last'.op \in Teardowns ]_vars

\* A disconnect emptied a registry of two connections.
C14_Witness ==
    /\ last.op = "disconnect" /\ last.ok
    /\ RegistryEmpty(_cache)
    /\ opened = 2
    /\ closeCalls[1] = 0 /\ closeCalls[2] = 1

\* C15: a successful switch changes only which entry is current: the
\* entries, their indices and aliases, the index of the next connect and
\* the handles are unchanged, and close is invoked on no handle.
C15_SwitchFrame ==
    [][ (last'.op = "switch" /\ last'.ok)
            => /\ _cache'.connections = _cache.connections
               /\ _cache'.aliases = _cache.aliases
               /\ RegisterIndex(_cache') = RegisterIndex(_cache)
               /\ closeCalls' = closeCalls
               /\ closeFailures' = closeFailures
               /\ opened' = opened
               /\ docs' = docs ]_vars

\* A switch moved the current connection from the second entry to the
\* first, with the alias kept and no handle closed.
C15_Witness ==
    /\ last.op = "switch" /\ last.ok
    /\ last.ret = 2 /\ last.sel = 1
    /\ Len(_cache.connections) = 2
    /\ _cache.aliases["b1"] = 1
    /\ _cache.current = 1
    /\ \A h \in Handles : closeCalls[h] = 0

\* C16: a document operation is delegated only to a handle on which close
\* has not been invoked.
C16_NoCallOnClosedHandle ==
    (last.op \in DocOps /\ last.target # None) => closeCalls[last.target] = 0

====
